---------------------------- MODULE Spec2Model ----------------------------
(***************************************************************************)
(* Console contact manager: field validators, Record, AddressBook          *)
(* (ab_classes.py) and the command loop (main.py).                         *)
(*                                                                         *)
(* Python strings are sequences of one-character strings, so validation,   *)
(* normalisation and pattern matching are computed character by character. *)
(* None is the empty tuple: no validated Field is empty, so it is distinct *)
(* from every Phone, Email and Birthday value.  A date is <<year, month,   *)
(* day>>.  A dict is the sequence of its values in insertion order; the    *)
(* key of a Record is its name, as add_record sets it.                     *)
(***************************************************************************)
EXTENDS Integers, Sequences, FiniteSets, TLC

VARIABLES
    data,      \* AddressBook.data: the Records, in dict insertion order
    file,      \* <<content>> of phonebook.bin, None while the file is absent
    is_ended,  \* main.py global is_ended
    raised,    \* name of the exception that left main(), "" while it runs
    out,       \* what the last call returned or printed
    inp,       \* the arguments of the pure function under study
    rec,       \* one Record, for the Record-level operations
    gen,       \* the generator object returned by AddressBook.iterator
    yielded,   \* the pages that generator has yielded so far
    snap       \* history variable: data when iterator() was called

vars == <<data, file, is_ended, raised, out, inp, rec, gen, yielded, snap>>

None == <<>>

----------------------------------------------------------------------------
(* Bounds of the model.                                                    *)

\* longest phone list the session model lets a Record grow to
MaxPhones == 1
\* largest page size handed to AddressBook.iterator
MaxPage == 2
\* most contacts of a book in the models of AddressBook
MaxContacts == 3
\* most contacts of a book whose pages are fetched while it is changed
MaxLazyContacts == 2
\* longest phone list in the model of Record
MaxRecordPhones == 3
\* most contacts of a book that is searched
MaxSearchContacts == 2
\* number of consecutive years the current date is drawn from
NumYears == 2
\* longest search pattern
MaxPattern == 2

----------------------------------------------------------------------------
(* Characters and the str predicates the validators use.                   *)

Digits == {"0", "1", "2", "3", "4", "5", "6", "7", "8", "9"}

LowerLetters == {"a", "b", "c", "d", "e", "f", "g", "h", "i", "j", "k", "l", "m",
                 "n", "o", "p", "q", "r", "s", "t", "u", "v", "w", "x", "y", "z"}

UpperLetters == {"A", "B", "C", "D", "E", "F", "G", "H", "I", "J", "K", "L", "M",
                 "N", "O", "P", "Q", "R", "S", "T", "U", "V", "W", "X", "Y", "Z"}

Letters == LowerLetters \cup UpperLetters

LowerSeq == <<"a", "b", "c", "d", "e", "f", "g", "h", "i", "j", "k", "l", "m",
             "n", "o", "p", "q", "r", "s", "t", "u", "v", "w", "x", "y", "z">>

UpperSeq == <<"A", "B", "C", "D", "E", "F", "G", "H", "I", "J", "K", "L", "M",
             "N", "O", "P", "Q", "R", "S", "T", "U", "V", "W", "X", "Y", "Z">>

\* str.lower() of one character
LowerChar(c) ==
    IF c \in UpperLetters THEN LowerSeq[CHOOSE i \in 1..26 : UpperSeq[i] = c] ELSE c

\* str.isnumeric() / str.isdecimal(): non-empty and every character a digit
IsNumeric(s) == Len(s) > 0 /\ \A i \in 1..Len(s) : s[i] \in Digits

\* the characters of s that are not in drop, in order (chained str.replace(c, ""))
RECURSIVE RemoveAll(_, _)
RemoveAll(s, drop) ==
    IF s = <<>> THEN <<>>
    ELSE IF Head(s) \in drop THEN RemoveAll(Tail(s), drop)
    ELSE <<Head(s)>> \o RemoveAll(Tail(s), drop)

\* str.strip(): leading and trailing blanks removed
RECURSIVE LStrip(_)
LStrip(s) == IF s # <<>> /\ Head(s) = " " THEN LStrip(Tail(s)) ELSE s

RECURSIVE RStrip(_)
RStrip(s) ==
    IF s # <<>> /\ s[Len(s)] = " " THEN RStrip(SubSeq(s, 1, Len(s) - 1)) ELSE s

Strip(s) == RStrip(LStrip(s))

\* str.removeprefix("+"): one leading "+" removed
RemovePrefixPlus(s) == IF s # <<>> /\ Head(s) = "+" THEN Tail(s) ELSE s

\* decimal value of a digit string
DigitVal(c) ==
    CASE c = "0" -> 0 [] c = "1" -> 1 [] c = "2" -> 2 [] c = "3" -> 3
      [] c = "4" -> 4 [] c = "5" -> 5 [] c = "6" -> 6 [] c = "7" -> 7
      [] c = "8" -> 8 [] c = "9" -> 9

RECURSIVE ToInt(_)
ToInt(s) == IF s = <<>> THEN 0 ELSE 10 * ToInt(SubSeq(s, 1, Len(s) - 1)) + DigitVal(s[Len(s)])

----------------------------------------------------------------------------
(* Field validators.                                                       *)

\* Name.value setter: accepted unless numeric or shorter than 3
NameOk(value) == ~(IsNumeric(value) \/ Len(value) < 3)

min_len == 5
max_len == 17

\* Phone.value setter: the normalised digit string
PhoneValue(value) ==
    RemoveAll(RemovePrefixPlus(Strip(value)), {"(", ")", "-"})

\* Phone.value setter: TypeError unless decimal and of length min_len..max_len
PhoneOk(value) ==
    LET new_phone == PhoneValue(value)
    IN  IsNumeric(new_phone) /\ min_len <= Len(new_phone) /\ Len(new_phone) <= max_len

\* Email.value setter: ^[a-zA-Z0-9._%+-]+@[a-zA-Z0-9.-]+\.[a-zA-Z]{2,}$
EmailLocalChars == Letters \cup Digits \cup {".", "_", "%", "+", "-"}
EmailDomainChars == Letters \cup Digits \cup {".", "-"}

EmailOk(value) ==
    \E at \in 1..Len(value), dot \in 1..Len(value) :
        /\ value[at] = "@"
        /\ value[dot] = "."
        /\ at > 1
        /\ \A i \in 1..(at - 1) : value[i] \in EmailLocalChars
        /\ dot > at + 1
        /\ \A i \in (at + 1)..(dot - 1) : value[i] \in EmailDomainChars
        /\ Len(value) - dot >= 2
        /\ \A i \in (dot + 1)..Len(value) : value[i] \in Letters

\* calendar of datetime
IsLeap(y) == y % 4 = 0 /\ (y % 100 # 0 \/ y % 400 = 0)

DaysInMonth(y, m) ==
    IF m = 2 THEN (IF IsLeap(y) THEN 29 ELSE 28)
    ELSE IF m \in {4, 6, 9, 11} THEN 30 ELSE 31

DateValid(y, m, d) == y >= 1 /\ m \in 1..12 /\ d >= 1 /\ d <= DaysInMonth(y, m)

\* positions of the separator sep in s
SepPositions(s, sep) == {i \in 1..Len(s) : s[i] = sep}

\* datetime.strptime(value, "%d<sep>%m<sep>%Y"): day and month of one or two
\* digits, year of four digits, a date of the calendar; None stands for the
\* ValueError raised otherwise
StrpTime(value, sep) ==
    LET at == SepPositions(value, sep)
        i == CHOOSE p \in at : \A q \in at : p <= q
        j == CHOOSE p \in at : \A q \in at : p >= q
        day == SubSeq(value, 1, i - 1)
        month == SubSeq(value, i + 1, j - 1)
        year == SubSeq(value, j + 1, Len(value))
    IN  IF /\ Cardinality(at) = 2
           /\ Len(day) \in 1..2 /\ IsNumeric(day)
           /\ Len(month) \in 1..2 /\ IsNumeric(month)
           /\ Len(year) = 4 /\ IsNumeric(year)
           /\ DateValid(ToInt(year), ToInt(month), ToInt(day))
        THEN <<ToInt(year), ToInt(month), ToInt(day)>>
        ELSE None

\* Birthday.value setter: "%d.%m.%Y" first, then "%d/%m/%Y"
BirthdayValue(value) ==
    LET dotted == StrpTime(value, ".")
    IN  IF dotted # None THEN dotted ELSE StrpTime(value, "/")

BirthdayOk(value) == BirthdayValue(value) # None

----------------------------------------------------------------------------
(* Python list operations used by Record.                                  *)

\* whether 0-based index i (negative counts from the end) addresses an element
PyIndexOk(l, i) == -Len(l) <= i /\ i < Len(l)

\* the 1-based position 0-based index i addresses
PyPos(l, i) == IF i < 0 THEN i + Len(l) + 1 ELSE i + 1

\* list.pop(i), for an index that addresses an element: the list left
ListPop(l, i) == SubSeq(l, 1, PyPos(l, i) - 1) \o SubSeq(l, PyPos(l, i) + 1, Len(l))

\* list.insert(i, x): a negative index counts from the end, and every index
\* is clamped to the list
ListInsert(l, i, x) ==
    LET k == IF i < 0 THEN (IF i + Len(l) < 0 THEN 0 ELSE i + Len(l))
             ELSE (IF i > Len(l) THEN Len(l) ELSE i)
    IN  SubSeq(l, 1, k) \o <<x>> \o SubSeq(l, k + 1, Len(l))

----------------------------------------------------------------------------
(* Record.                                                                 *)

\* Record.__init__(name, phone): phone is a Phone or None
Record(name, phone) ==
    [name |-> name,
     phones |-> IF phone # None THEN <<phone>> ELSE <<>>,
     email |-> None,
     birthday |-> None]

\* Record.__str__: the text is a function of the four fields and never empty;
\* a page keeps one such rendering per Record
Render(r) == <<r.name, r.phones, r.email, r.birthday>>

\* Record.add_phone
add_phone(r, phone) == [r EXCEPT !.phones = Append(r.phones, phone)]

\* Record.add_email
add_email(r, email) == [r EXCEPT !.email = email]

\* add_birthday without its guard: the new date replaces the old one
add_birthday_unguarded(r, birthday) ==
    [exc |-> "", rec |-> [r EXCEPT !.birthday = birthday]]

\* Record.add_birthday: [exc, rec]
add_birthday(r, birthday) ==
    IF r.birthday = None
    THEN [exc |-> "", rec |-> [r EXCEPT !.birthday = birthday]]
    ELSE [exc |-> "IndexError", rec |-> r]

\* Record.del_phone(num): [exc, rec, ret]
del_phone(r, num) ==
    IF r.phones = <<>> \/ ~PyIndexOk(r.phones, num - 1)
    THEN [exc |-> "IndexError", rec |-> r, ret |-> None]
    ELSE [exc |-> "",
          rec |-> [r EXCEPT !.phones = ListPop(r.phones, num - 1)],
          ret |-> r.phones[PyPos(r.phones, num - 1)]]

\* Record.edit_phone(phone_new, num): [exc, rec]
edit_phone(r, phone_new, num) ==
    IF r.phones = <<>> \/ ~PyIndexOk(r.phones, num - 1)
    THEN [exc |-> "IndexError", rec |-> r]
    ELSE [exc |-> "",
          rec |-> [r EXCEPT !.phones =
                      ListInsert(ListPop(r.phones, num - 1), num - 1, phone_new)]]

----------------------------------------------------------------------------
(* AddressBook.                                                            *)

Keys(d) == {d[i].name : i \in 1..Len(d)}

HasKey(d, k) == k \in Keys(d)

IndexOf(d, k) == CHOOSE i \in 1..Len(d) : d[i].name = k

\* UserDict.get(key): the value, or None when the key is absent
Get(d, k) == IF HasKey(d, k) THEN d[IndexOf(d, k)] ELSE None

\* AddressBook.add_record: dict.update({name: record})
add_record(d, r) ==
    IF HasKey(d, r.name) THEN [d EXCEPT ![IndexOf(d, r.name)] = r]
    ELSE Append(d, r)

\* the dict with the value under an existing key replaced (a Record is
\* mutated in place through the reference get() returned)
Put(d, r) == [d EXCEPT ![IndexOf(d, r.name)] = r]

\* AddressBook.remove_record: dict.pop(contact), for a key that is present
remove_record(d, k) ==
    SubSeq(d, 1, IndexOf(d, k) - 1) \o SubSeq(d, IndexOf(d, k) + 1, Len(d))

\* islice(values, start, stop): the values at 0-based positions start..stop-1
RECURSIVE ISlice(_, _, _)
ISlice(values, start, stop) ==
    IF start >= stop \/ start >= Len(values) THEN <<>>
    ELSE <<values[start + 1]>> \o ISlice(values, start + 1, stop)

\* the renderings of the Records of a page, concatenated
RECURSIVE RenderAll(_)
RenderAll(rs) == IF rs = <<>> THEN <<>> ELSE <<Render(Head(rs))>> \o RenderAll(Tail(rs))

\* a page of text: the renderings it concatenates, or the count of the
\* summary "Total: <n> contacts." (as <<n>>)
ContentPage(output) == [lines |-> output, total |-> None]
SummaryPage(n) == [lines |-> <<>>, total |-> <<n>>]

\* AddressBook.iterator(page): the generator before its first page
iterator(page) == [page |-> page, start |-> 0, done |-> FALSE]

\* a generator that pages the book as it was when iterator() was called
GenNextOfSnapshot(g, d) ==
    LET output == RenderAll(ISlice(snap, g.start, g.start + g.page))
    IN  IF output = <<>>
        THEN [gen |-> [g EXCEPT !.done = TRUE], page |-> SummaryPage(Len(snap))]
        ELSE [gen |-> [g EXCEPT !.start = g.start + g.page],
              page |-> ContentPage(output)]

\* a generator whose pages overlap: start moves on by one
GenNextByOne(g, d) ==
    LET output == RenderAll(ISlice(d, g.start, g.start + g.page))
    IN  IF output = <<>>
        THEN [gen |-> [g EXCEPT !.done = TRUE], page |-> SummaryPage(Len(d))]
        ELSE [gen |-> [g EXCEPT !.start = g.start + 1],
              page |-> ContentPage(output)]

\* one resumption of the generator: [gen, page]; the loop body reads
\* self.data anew each time round
GenNext(g, d) ==
    LET output == RenderAll(ISlice(d, g.start, g.start + g.page))
    IN  IF output = <<>>
        THEN [gen |-> [g EXCEPT !.done = TRUE], page |-> SummaryPage(Len(d))]
        ELSE [gen |-> [g EXCEPT !.start = g.start + g.page],
              page |-> ContentPage(output)]

\* re.match(pattern, string, flags) for a pattern whose characters are
\* letters, digits, "." and "(": "." matches any character, an unclosed "("
\* does not compile, every other character matches itself (or its other case
\* under re.IGNORECASE)
PatternCompiles(pattern) == \A i \in 1..Len(pattern) : pattern[i] # "("

ReMatch(pattern, string, ignorecase) ==
    /\ Len(pattern) <= Len(string)
    /\ \A i \in 1..Len(pattern) :
          \/ pattern[i] = "."
          \/ pattern[i] = string[i]
          \/ ignorecase /\ LowerChar(pattern[i]) = LowerChar(string[i])

\* the phones of one contact that the numeric branch matches: one entry of
\* the contact per matching phone
RECURSIVE PhoneHits(_, _, _)
PhoneHits(contact, phones, pattern) ==
    IF phones = <<>> THEN <<>>
    ELSE (IF ReMatch(pattern, Head(phones), FALSE) THEN <<contact>> ELSE <<>>)
         \o PhoneHits(contact, Tail(phones), pattern)

RECURSIVE SearchPhones(_, _)
SearchPhones(values, pattern) ==
    IF values = <<>> THEN <<>>
    ELSE PhoneHits(Head(values), Head(values).phones, pattern)
         \o SearchPhones(Tail(values), pattern)

RECURSIVE SearchNames(_, _)
SearchNames(values, pattern) ==
    IF values = <<>> THEN <<>>
    ELSE (IF ReMatch(pattern, Head(values).name, TRUE) THEN <<Head(values)>> ELSE <<>>)
         \o SearchNames(Tail(values), pattern)

\* whether some phone list holds None (phone.value then raises AttributeError)
HasNonePhone(d) == \E i \in 1..Len(d) : \E j \in 1..Len(d[i].phones) : d[i].phones[j] = None

\* AddressBook.search(pattern): [exc, found]; re.match compiles the pattern
\* when it is first called, so only when there is something to match against
search(d, pattern) ==
    IF IsNumeric(pattern)
    THEN IF HasNonePhone(d)
         THEN [exc |-> "AttributeError", found |-> <<>>]
         ELSE [exc |-> "", found |-> SearchPhones(d, pattern)]
    ELSE IF d # <<>> /\ ~PatternCompiles(pattern)
         THEN [exc |-> "re.error", found |-> <<>>]
         ELSE [exc |-> "", found |-> SearchNames(d, pattern)]

----------------------------------------------------------------------------
(* Record.days_to_birthday.                                                *)

\* date.toordinal()
DaysBeforeYear(y) == (y - 1) * 365 + (y - 1) \div 4 - (y - 1) \div 100 + (y - 1) \div 400

RECURSIVE DaysBeforeMonth(_, _)
DaysBeforeMonth(y, m) ==
    IF m = 1 THEN 0 ELSE DaysBeforeMonth(y, m - 1) + DaysInMonth(y, m - 1)

ToOrdinal(date) == DaysBeforeYear(date[1]) + DaysBeforeMonth(date[1], date[2]) + date[3]

SecondsPerDay == 86400

\* (compare - today).days: compare is a date at midnight, today a moment
\* [date, seconds]; the difference is timedelta(days of the dates, -seconds
\* of the day), which timedelta normalises to 0 <= seconds < 86400, carrying
\* the floor into days
DeltaDays(compare, today) ==
    (ToOrdinal(compare) - ToOrdinal(today.date)) + ((0 - today.seconds) \div SecondsPerDay)

\* Record.days_to_birthday with datetime.today() = today: [kind, n]
days_to_birthday(r, today) ==
    IF r.birthday = None THEN [kind |-> "no birthdate", n |-> 0]
    ELSE IF ~DateValid(today.date[1], r.birthday[2], r.birthday[3])
    THEN [kind |-> "ValueError", n |-> 0]
    ELSE LET compare == <<today.date[1], r.birthday[2], r.birthday[3]>>
         IN  IF DeltaDays(compare, today) > 0
             THEN [kind |-> "days", n |-> DeltaDays(compare, today)]
             ELSE IF today.date[2] = compare[2] /\ today.date[3] = compare[3]
             THEN [kind |-> "today", n |-> 0]
             ELSE IF ~DateValid(today.date[1] + 1, compare[2], compare[3])
             THEN [kind |-> "ValueError", n |-> 0]
             ELSE [kind |-> "days",
                   n |-> DeltaDays(<<today.date[1] + 1, compare[2], compare[3]>>, today)]

----------------------------------------------------------------------------
(* main.py: the command handlers.  Each takes the book and the argument     *)
(* list command_parser produced (one or two strings, one empty string when *)
(* the line held the command alone) and gives [exc, data, ret]: the exception it     *)
(* raised ("" for none), the book after it, and the text it returned.       *)

PAGE == 10

\* args of a command given alone: ("",).  The empty str is the empty tuple,
\* like None: the handlers only test the truth of an optional argument
NoArgs == <<<<>>>>

Ok(d, ret) == [exc |-> "", data |-> d, ret |-> ret]
Raise(exc, d) == [exc |-> exc, data |-> d, ret |-> ""]

\* int(input(...)): None stands for the ValueError of a non-number
IntOk(s) == IsNumeric(s) \/ (Len(s) > 1 /\ s[1] = "-" /\ IsNumeric(Tail(s)))
int(s) == IF s[1] = "-" THEN -ToInt(Tail(s)) ELSE ToInt(s)

\* add(book, contact, phone=None)
cmd_add(d, args) ==
    LET contact == args[1]
        phone == IF Len(args) = 2 THEN args[2] ELSE None
    IN  IF ~NameOk(contact) THEN Raise("ValueError", d)
        ELSE IF phone # <<>> /\ ~PhoneOk(phone) THEN Raise("TypeError", d)
        ELSE LET phone_new == IF phone # <<>> THEN PhoneValue(phone) ELSE None
             IN  IF ~HasKey(d, contact)
                 THEN Ok(add_record(d, Record(contact, phone_new)), "Added contact")
                 ELSE Ok(Put(d, add_phone(Get(d, contact), phone_new)),
                         "Updated existing contact with new phone number")

\* add_email(book, contact, email)
cmd_add_email(d, args) ==
    IF Len(args) # 2 THEN Raise("TypeError", d)
    ELSE IF ~EmailOk(args[2]) THEN Raise("ValueError", d)
    ELSE IF Get(d, args[1]) = None THEN Raise("AttributeError", d)
    ELSE Ok(Put(d, add_email(Get(d, args[1]), args[2])),
            "Updated existing contact with new email")

\* add_birthday(book, contact, birthday)
cmd_add_birthday(d, args) ==
    IF Len(args) # 2 THEN Raise("TypeError", d)
    ELSE IF ~BirthdayOk(args[2]) THEN Raise("ValueError", d)
    ELSE IF Get(d, args[1]) = None THEN Raise("AttributeError", d)
    ELSE LET r == add_birthday(Get(d, args[1]), BirthdayValue(args[2]))
         IN  IF r.exc # "" THEN Raise(r.exc, d)
             ELSE Ok(Put(d, r.rec), "Updated existing contact with a birth date")

\* congrat(book, contact), with datetime.today() = today
cmd_congrat(d, args, today) ==
    IF Len(args) # 1 THEN Raise("TypeError", d)
    ELSE IF Get(d, args[1]) = None THEN Raise("AttributeError", d)
    ELSE LET r == days_to_birthday(Get(d, args[1]), today)
         IN  IF r.kind = "ValueError" THEN Raise("ValueError", d)
             ELSE IF r.kind = "days" THEN Ok(d, "<n> days to birthday")
             ELSE IF r.kind = "today" THEN Ok(d, "It is TODAY!!!")
             ELSE Ok(d, "Sorry, no birthdate for this contact")

\* change(book, contact, phone=None); index and typed are what the user
\* answers to the two prompts, when they are asked
cmd_change(d, args, index, typed) ==
    LET contact == args[1]
        phone == IF Len(args) = 2 THEN args[2] ELSE None
        r == Get(d, contact)
        raw == IF phone = <<>> THEN typed ELSE phone
    IN  IF r = None THEN Raise("AttributeError", d)
        ELSE IF r.phones = <<>>
        THEN IF ~PhoneOk(raw) THEN Raise("TypeError", d)
             ELSE Ok(Put(d, add_phone(r, PhoneValue(raw))), "Changed phone number to")
        ELSE IF Len(r.phones) > 1 /\ ~IntOk(index) THEN Raise("ValueError", d)
        ELSE LET num == IF Len(r.phones) = 1 THEN 1 ELSE int(index)
             IN  IF ~PhoneOk(raw) THEN Raise("TypeError", d)
                 ELSE IF ~PyIndexOk(r.phones, num - 1) THEN Raise("IndexError", d)
                 ELSE LET e == edit_phone(r, PhoneValue(raw), num)
                      IN  IF e.exc # "" THEN Raise(e.exc, d)
                          ELSE Ok(Put(d, e.rec), "Changed phone number")

\* whether Field.__eq__(p, phone) is reached for some phone p of the list: the
\* str phone has no attribute value, so the comparison raises AttributeError;
\* None == phone is just False
ComparesPhone(phones) == \E j \in 1..Len(phones) : phones[j] # None

\* del_phone(book, contact, phone=None); index is the answer to the prompt
cmd_del_phone(d, args, index) ==
    LET contact == args[1]
        phone == IF Len(args) = 2 THEN args[2] ELSE None
        r == Get(d, contact)
    IN  IF r = None THEN Raise("AttributeError", d)
        ELSE IF phone # <<>>
        THEN IF ComparesPhone(r.phones) THEN Raise("AttributeError", d)
             ELSE Raise("ValueError", d)
        ELSE IF Len(r.phones) # 1 /\ ~IntOk(index) THEN Raise("ValueError", d)
        ELSE LET num == IF Len(r.phones) = 1 THEN 1 ELSE int(index)
                 e == del_phone(r, num)
             IN  IF e.exc # "" THEN Raise(e.exc, d)
                 ELSE Ok(Put(d, e.rec), "Phone deleted!")

\* del_email(book, contact, email=None)
cmd_del_email(d, args) ==
    IF Get(d, args[1]) = None THEN Raise("AttributeError", d)
    ELSE Ok(Put(d, [Get(d, args[1]) EXCEPT !.email = None]), "email deleted")

\* del_contact(book, contact), once the user has answered "y"
cmd_del_contact(d, args) ==
    IF Len(args) # 1 THEN Raise("TypeError", d)
    ELSE IF Get(d, args[1]) = None THEN Raise("AttributeError", d)
    ELSE Ok(remove_record(d, args[1]), "Contact deleted!")

\* del_birthday(book, contact)
cmd_del_birthday(d, args) ==
    IF Len(args) # 1 THEN Raise("TypeError", d)
    ELSE IF Get(d, args[1]) = None THEN Raise("AttributeError", d)
    ELSE Ok(Put(d, [Get(d, args[1]) EXCEPT !.birthday = None]), "birthday deleted")

\* phone(book, contact): AddressBook.show_phone
cmd_phone(d, args) ==
    IF Len(args) # 1 THEN Raise("TypeError", d)
    ELSE IF Get(d, args[1]) = None THEN Raise("AttributeError", d)
    ELSE Ok(d, "Contact phones")

\* show_all(book, *args): below PAGE contacts the whole listing is returned,
\* otherwise the pages of book.iterator(PAGE) are printed and None returned
cmd_show_all(d, args) ==
    IF args # NoArgs THEN Raise("IndexError", d)
    ELSE IF Len(d) < PAGE THEN Ok(d, "listing") ELSE Ok(d, "None")

\* search(book, pattern)
cmd_search(d, args) ==
    IF Len(args) # 1 THEN Raise("TypeError", d)
    ELSE IF args[1] = <<>> THEN Raise("IndexError", d)
    ELSE LET r == search(d, args[1])
         IN  IF r.exc # "" THEN Raise(r.exc, d)
             ELSE IF r.found # <<>> THEN Ok(d, "Found match(es)")
             ELSE Ok(d, "not found!")

\* greet(book, *args) and help(book, *args)
cmd_greet(d, args) ==
    IF args # NoArgs THEN Raise("IndexError", d) ELSE Ok(d, "How can I help you?")

cmd_help(d, args) ==
    IF args # NoArgs THEN Raise("IndexError", d) ELSE Ok(d, "available commands")

\* exit(book, *args): the part before is_ended is set
cmd_exit(d, args) ==
    IF args # NoArgs THEN Raise("IndexError", d) ELSE Ok(d, "Good bye!")

\* input_error: the text returned for an exception of handler func;
\* "None" where no branch returns
input_error(func, exc) ==
    CASE exc = "TypeError" ->
            (CASE func = "handler" -> "No such command!"
               [] func \in {"add", "change"} -> "Give me name and phone please"
               [] func = "add_birthday" -> "input name and date"
               [] func = "add_email" -> "input name and e-mail"
               [] func = "search" -> "Command needs only 1 argument"
               [] OTHER -> "None")
      [] exc = "AttributeError" -> "No such contact!"
      [] exc = "ValueError" ->
            (CASE func \in {"add", "change"} -> "Name cannot consist of only digits"
               [] func = "phone" -> "Enter contact name"
               [] func = "show_all" -> "The Phonebook is empty"
               [] func = "del_phone" -> "this contact doesn't have such phone number"
               [] func = "add_birthday" -> "use date format DD.MM.YYYY or DD/MM/YYYY"
               [] func = "add_email" -> "invalid email format"
               [] OTHER -> "None")
      [] exc = "IndexError" ->
            (CASE func = "add_birthday" -> "Birth date lready entered, only one allowed"
               [] func = "search" -> "Command needs arguments"
               [] OTHER -> "Command needs no arguments")

\* the exceptions input_error catches; any other leaves main()
Caught == {"TypeError", "AttributeError", "ValueError", "IndexError"}

\* AddressBook.save_to_file: pickle.dump(self.data) writes the dict's
\* (key, value) items in order
save_to_file(d) == <<[i \in 1..Len(d) |-> <<d[i].name, d[i]>>]>>

\* AddressBook.load_from_file: the values of the pickled dict, in order
load_from_file(f) == [i \in 1..Len(f[1]) |-> f[1][i][2]]

----------------------------------------------------------------------------
(* What the user types in the session model.                               *)

Ann == <<"A", "n", "n">>
Bob == <<"B", "o", "b">>

\* names given to add: two names, a numeric one (refused by Name), none
NameArgs == {Ann, Bob, <<"1", "2", "3">>, <<>>}

\* contacts named to the other commands; <<>> is the command given alone
ContactArgs == {Ann, Bob, <<>>}

\* phone arguments: "+1(234)5" is 12345, "1234" is too short, the 18 digits
\* are too long
PhoneArgs ==
    {<<"+", "1", "(", "2", "3", "4", ")", "5">>,
     <<"1", "2", "3", "4">>,
     <<"1", "2", "3", "4", "5", "6", "7", "8", "9", "0", "1", "2", "3", "4", "5", "6", "7", "8">>}

\* what is typed at the prompt for a phone number: 12345, and "1234"
PhoneInputs == {<<"1", "2", "3", "4", "5">>, <<"1", "2", "3", "4">>}

\* "a@b.cd", and "a@b.c" (top-level domain of one letter)
EmailArgs == {<<"a", "@", "b", ".", "c", "d">>, <<"a", "@", "b", ".", "c">>}

\* "1.3.1990", "02/03/1991", and "31.04.1990" (no such day)
BirthdayArgs ==
    {<<"1", ".", "3", ".", "1", "9", "9", "0">>,
     <<"0", "2", "/", "0", "3", "/", "1", "9", "9", "1">>,
     <<"3", "1", ".", "0", "4", ".", "1", "9", "9", "0">>}

\* answers to "enter index"
IndexInputs == {<<"0">>, <<"1">>, <<"3">>, <<"-", "1">>, <<"x">>}

\* search patterns: a name prefix, a phone prefix, an unclosed group, none
SearchArgs == {<<"a", "n">>, <<"1", "2">>, <<"(">>, <<>>}

\* datetime.today() when congrat runs: 2024-03-01 at 00:00:00 and 12:00:00
Todays == {[date |-> <<2024, 3, 1>>, seconds |-> 0],
           [date |-> <<2024, 3, 1>>, seconds |-> 43200]}

\* an argument list of two strings, for the commands that take one or none
TwoArgs == {<<Ann, Bob>>}

\* argument lists: the command alone, one argument, two arguments
Args1(S) == {<<a>> : a \in S}
Args2(S, T) == {<<a, b>> : a \in S, b \in T}

----------------------------------------------------------------------------
(* main(): one action per command of the loop.                             *)

Running == ~is_ended /\ raised = ""

\* print(handler(command, book, args)) for a handler that gave r; an
\* exception input_error does not catch leaves main()
Step(func, r) ==
    /\ Running
    /\ \A i \in 1..Len(r.data) : Len(r.data[i].phones) <= MaxPhones
    /\ data' = r.data
    /\ out' = IF r.exc = "" THEN r.ret
              ELSE IF r.exc \in Caught THEN input_error(func, r.exc)
              ELSE "Traceback"
    /\ raised' = IF r.exc = "" \/ r.exc \in Caught THEN "" ELSE r.exc
    /\ UNCHANGED <<file, is_ended, inp, rec, gen, yielded, snap>>

Add == \E args \in Args1(NameArgs) \cup Args2(NameArgs, PhoneArgs) :
           Step("add", cmd_add(data, args))

AddEmail == \E args \in Args1(ContactArgs) \cup Args2(ContactArgs, EmailArgs) :
                Step("add_email", cmd_add_email(data, args))

AddBirthday == \E args \in Args1(ContactArgs) \cup Args2(ContactArgs, BirthdayArgs) :
                   Step("add_birthday", cmd_add_birthday(data, args))

Congrat == \E args \in Args1(ContactArgs) \cup TwoArgs, today \in Todays :
               Step("congrat", cmd_congrat(data, args, today))

\* the prompts change and del_phone show: the index is asked of a contact
\* with several phones (del_phone: also with none), the number when the
\* command line gave none; a prompt that is not shown is answered <<>>
AsksIndex(d, contact, several) ==
    /\ Get(d, contact) # None
    /\ Len(Get(d, contact).phones) \in several

IndexAnswers(d, args, several) ==
    IF AsksIndex(d, args[1], several) THEN IndexInputs ELSE {<<>>}

PhoneAnswers(d, args) ==
    IF Get(d, args[1]) # None /\ Len(args) = 1 THEN PhoneInputs ELSE {<<>>}

Change == \E args \in Args1(ContactArgs) \cup Args2(ContactArgs, PhoneInputs) :
              \E index \in IndexAnswers(data, args, 2..(MaxPhones + 1)),
                 typed \in PhoneAnswers(data, args) :
                  Step("change", cmd_change(data, args, index, typed))

DelPhone == \E args \in Args1(ContactArgs) \cup Args2(ContactArgs, PhoneInputs) :
                \E index \in IndexAnswers(data, args, {0} \cup 2..(MaxPhones + 1)) :
                    Step("del_phone", cmd_del_phone(data, args, index))

DelEmail == \E args \in Args1(ContactArgs) \cup TwoArgs :
                Step("del_email", cmd_del_email(data, args))

DelContact == \E args \in Args1(ContactArgs) \cup TwoArgs :
                  Step("del_contact", cmd_del_contact(data, args))

DelBirthday == \E args \in Args1(ContactArgs) \cup TwoArgs :
                   Step("del_birthday", cmd_del_birthday(data, args))

ShowPhone == \E args \in Args1(ContactArgs) \cup TwoArgs :
                 Step("phone", cmd_phone(data, args))

ShowAll == \E args \in Args1(ContactArgs) \cup TwoArgs :
               Step("show_all", cmd_show_all(data, args))

Search == \E args \in Args1(SearchArgs) \cup TwoArgs :
              Step("search", cmd_search(data, args))

Greet == \E args \in Args1(ContactArgs) \cup TwoArgs : Step("greet", cmd_greet(data, args))

Help == \E args \in Args1(ContactArgs) \cup TwoArgs : Step("help", cmd_help(data, args))

\* a line command_parser finds no command in: handler(None, book, [])
NoCommand == Step("handler", Raise("TypeError", data))

\* close / good bye / exit, given args
ExitWith(args) ==
    LET r == cmd_exit(data, args)
    IN  /\ Running
        /\ is_ended' = (r.exc = "")
        /\ file' = IF r.exc = "" THEN save_to_file(data) ELSE file
        /\ out' = IF r.exc = "" THEN r.ret ELSE input_error("exit", r.exc)
        /\ UNCHANGED <<data, raised, inp, rec, gen, yielded, snap>>

Exit == \E args \in Args1(ContactArgs) \cup TwoArgs : ExitWith(args)

\* main() on a machine without phonebook.bin: an empty book
Init ==
    /\ data = <<>>
    /\ file = None
    /\ is_ended = FALSE
    /\ raised = ""
    /\ out = ""
    /\ inp = <<>>
    /\ rec = <<>>
    /\ gen = <<>>
    /\ yielded = <<>>
    /\ snap = <<>>

Next ==
    \/ Add
    \/ AddEmail
    \/ AddBirthday
    \/ Congrat
    \/ Change
    \/ DelPhone
    \/ DelEmail
    \/ DelContact
    \/ DelBirthday
    \/ ShowPhone
    \/ ShowAll
    \/ Search
    \/ Greet
    \/ Help
    \/ NoCommand
    \/ Exit

Spec == Init /\ [][Next]_vars

----------------------------------------------------------------------------
(* Claims about the session.                                               *)

AlreadyEntered == "Birth date lready entered, only one allowed"
BirthDateSet == "Updated existing contact with a birth date"

\* what "add b_day" prints when given a contact of the book and a date
AddBirthdayReplies ==
    {AlreadyEntered, BirthDateSet, input_error("add_birthday", "ValueError")}

\* C3: add_birthday on a record that has a birthday fails (the "already
\* entered" reply) and leaves the book as it was; a birthday changes only
\* from None to the date given, or to None by del b_day / del contact: so the
\* stored birthday is the first one added since the last clear.  (The tests
\* of data' and out' that come first only spare work on the steps of other
\* commands: a step of add b_day that changes nothing or prints nothing of
\* AddBirthdayReplies has nothing to answer for here.)
C3_FirstBirthdayKept ==
    [][ /\ data' # data =>
              \A c \in Keys(data) \cap Keys(data') :
                  Get(data, c).birthday # None =>
                      Get(data', c).birthday \in {Get(data, c).birthday, None}
        /\ out' \in AddBirthdayReplies =>
              \A args \in Args2(Keys(data), BirthdayArgs) :
                  Step("add_birthday", cmd_add_birthday(data, args)) =>
                      /\ (Get(data, args[1]).birthday # None /\ BirthdayOk(args[2]))
                         => (data' = data /\ out' = AlreadyEntered)
                      /\ data' # data
                         => (/\ Get(data, args[1]).birthday = None
                             /\ Get(data', args[1]).birthday = BirthdayValue(args[2]))
      ]_vars

\* C3 witness: a second add b_day was refused, the first date still stored
C3_Witness ==
    /\ out = AlreadyEntered
    /\ \E i \in 1..Len(data) : data[i].birthday = <<1990, 3, 1>>

\* a validated Phone value: a digit string of length min_len..max_len
IsPhoneValue(p) == IsNumeric(p) /\ min_len <= Len(p) /\ Len(p) <= max_len

\* C9: every element of every record's phone list is a validated Phone value
\* (never None), in every state of a session.
C9_PhonesValidated ==
    \A i \in 1..Len(data) : \A j \in 1..Len(data[i].phones) :
        IsPhoneValue(data[i].phones[j])

\* C10: the loop ends only through an exit command given without arguments;
\* an exit command given with arguments leaves the session running and the
\* file untouched; and once the loop has ended the file holds the book.
C10_SessionLifecycle ==
    [][ /\ (Running /\ ~Running') => ExitWith(NoArgs)
        /\ \A args \in (Args1(ContactArgs) \cup TwoArgs) \ {NoArgs} :
              ExitWith(args) => (Running' /\ file' = file)
        /\ ~Running' => (file' # None /\ load_from_file(file') = data')
      ]_vars

----------------------------------------------------------------------------
(* Record used directly: add_phone, edit_phone and del_phone on one Record. *)

\* the Phone values 11111, 22222, 33333
RecordPhones ==
    {<<"1", "1", "1", "1", "1">>, <<"2", "2", "2", "2", "2">>, <<"3", "3", "3", "3", "3">>}

\* the index arguments tried: from below -len to above len
IndexRange == (0 - MaxRecordPhones - 1)..(MaxRecordPhones + 1)

\* the variables a specification does not use keep their initial value
InitRest(used) ==
    /\ IF "data" \in used THEN TRUE ELSE data = <<>>
    /\ IF "file" \in used THEN TRUE ELSE file = None
    /\ IF "is_ended" \in used THEN TRUE ELSE is_ended = FALSE
    /\ IF "raised" \in used THEN TRUE ELSE raised = ""
    /\ IF "out" \in used THEN TRUE ELSE out = ""
    /\ IF "inp" \in used THEN TRUE ELSE inp = <<>>
    /\ IF "rec" \in used THEN TRUE ELSE rec = <<>>
    /\ IF "gen" \in used THEN TRUE ELSE gen = <<>>
    /\ IF "yielded" \in used THEN TRUE ELSE yielded = <<>>
    /\ IF "snap" \in used THEN TRUE ELSE snap = <<>>

InitRecord ==
    /\ rec = Record(Ann, None)
    /\ inp = [op |-> "Record", num |-> 0, phone |-> None]
    /\ out = [exc |-> "", ret |-> None]
    /\ InitRest({"rec", "inp", "out"})

RecAddPhone ==
    \E phone \in RecordPhones :
        /\ Len(rec.phones) < MaxRecordPhones
        /\ rec' = add_phone(rec, phone)
        /\ inp' = [op |-> "add_phone", num |-> 0, phone |-> phone]
        /\ out' = [exc |-> "", ret |-> None]
        /\ UNCHANGED <<data, file, is_ended, raised, gen, yielded, snap>>

RecEditPhone ==
    \E phone \in RecordPhones, num \in IndexRange :
        /\ rec' = edit_phone(rec, phone, num).rec
        /\ inp' = [op |-> "edit_phone", num |-> num, phone |-> phone]
        /\ out' = [exc |-> edit_phone(rec, phone, num).exc, ret |-> None]
        /\ UNCHANGED <<data, file, is_ended, raised, gen, yielded, snap>>

RecDelPhone ==
    \E num \in IndexRange :
        /\ rec' = del_phone(rec, num).rec
        /\ inp' = [op |-> "del_phone", num |-> num, phone |-> None]
        /\ out' = [exc |-> del_phone(rec, num).exc, ret |-> del_phone(rec, num).ret]
        /\ UNCHANGED <<data, file, is_ended, raised, gen, yielded, snap>>

NextRecord == RecAddPhone \/ RecEditPhone \/ RecDelPhone

SpecRecord == InitRecord /\ [][NextRecord]_vars

\* C2: edit_phone and del_phone with an index outside 1..len(phones) raise
\* IndexError and leave the phone list exactly as it was.
C2_IndexChecked ==
    [][ (inp'.op \in {"edit_phone", "del_phone"} /\ inp'.num \notin 1..Len(rec.phones))
            => (out'.exc = "IndexError" /\ rec'.phones = rec.phones) ]_vars

----------------------------------------------------------------------------
(* AddressBook used directly: add_record, remove_record, get.              *)

DigitSeq == <<"1", "2", "3", "4", "5", "6", "7", "8", "9">>

\* the names Con1, Con2, ...
ContactName(i) == <<"C", "o", "n", DigitSeq[i]>>

\* Record(Name, None) and Record(Name, Phone("12345")) for the first n names
BookRecords(n) ==
    {Record(ContactName(i), phone) : i \in 1..n, phone \in {None, <<"1", "2", "3", "4", "5">>}}

BookKeys(n) == {ContactName(i) : i \in 1..n}

InitBook ==
    /\ data = <<>>
    /\ out = [op |-> "AddressBook", exc |-> "", ret |-> None]
    /\ InitRest({"data", "out"})

BookAdd(r) ==
    /\ data' = add_record(data, r)
    /\ out' = [op |-> "add_record", exc |-> "", ret |-> None]
    /\ UNCHANGED <<file, is_ended, raised, inp, rec, gen, yielded, snap>>

\* remove_record: dict.pop raises KeyError for an absent key
BookRemove(k) ==
    /\ data' = IF HasKey(data, k) THEN remove_record(data, k) ELSE data
    /\ out' = IF HasKey(data, k)
              THEN [op |-> "remove_record", exc |-> "", ret |-> Get(data, k)]
              ELSE [op |-> "remove_record", exc |-> "KeyError", ret |-> None]
    /\ UNCHANGED <<file, is_ended, raised, inp, rec, gen, yielded, snap>>

BookGet(k) ==
    /\ out' = [op |-> "get", exc |-> "", ret |-> Get(data, k)]
    /\ UNCHANGED <<data, file, is_ended, raised, inp, rec, gen, yielded, snap>>

NextBook ==
    \/ \E r \in BookRecords(MaxContacts) : BookAdd(r)
    \/ \E k \in BookKeys(MaxContacts) : BookRemove(k)
    \/ \E k \in BookKeys(MaxContacts) : BookGet(k)

SpecBook == InitBook /\ [][NextBook]_vars

\* C1: add_record of a record whose name is already a key fails with
\* DuplicateContact and leaves the book unchanged; for a new name the record
\* is inserted under its name.
C1_AddRejectsDuplicate ==
    [][ \A r \in BookRecords(MaxContacts) :
            BookAdd(r) =>
                IF HasKey(data, r.name)
                THEN out'.exc = "DuplicateContact" /\ data' = data
                ELSE Get(data', r.name) = r ]_vars

\* C7: get of a name that is not a key fails with NotFound (it does not
\* return None) and leaves the book unchanged; get of a key returns the
\* Record stored under it.
C7_GetRaisesNotFound ==
    [][ \A k \in BookKeys(MaxContacts) :
            BookGet(k) =>
                /\ data' = data
                /\ IF HasKey(data, k)
                   THEN out'.exc = "" /\ out'.ret = data[IndexOf(data, k)]
                   ELSE out'.exc = "NotFound" /\ out'.ret # None ]_vars

----------------------------------------------------------------------------
(* AddressBook.iterator over a book nothing else touches.                  *)

\* the books of at most n Records with distinct names (any dict add_record
\* can build), as the sequences of their values
RECURSIVE Books(_)
Books(n) ==
    IF n = 0 THEN {<<>>}
    ELSE Books(n - 1) \cup
         {Append(d, r) : d \in {b \in Books(n - 1) : Len(b) = n - 1},
                         r \in BookRecords(MaxContacts)}

DistinctNames(d) == \A i, j \in 1..Len(d) : d[i].name = d[j].name => i = j

InitPages ==
    /\ data \in {d \in Books(MaxContacts) : DistinctNames(d)}
    /\ \E page \in 1..MaxPage : gen = iterator(page)
    /\ yielded = <<>>
    /\ snap = data
    /\ InitRest({"data", "gen", "yielded", "snap"})

\* next(gen): the generator runs to its next yield; once it has yielded the
\* summary it is exhausted and yields no more
NextPage ==
    /\ gen # None
    /\ ~gen.done
    /\ gen' = GenNext(gen, data).gen
    /\ yielded' = Append(yielded, GenNext(gen, data).page)
    /\ UNCHANGED <<data, file, is_ended, raised, out, inp, rec, snap>>

SpecPages == InitPages /\ [][NextPage]_vars

\* ceil(n / p)
CeilDiv(n, p) == (n + p - 1) \div p

\* the renderings of pages 1..k, concatenated
RECURSIVE Lines(_, _)
Lines(pages, k) == IF k = 0 THEN <<>> ELSE Lines(pages, k - 1) \o pages[k].lines

\* C4: over a book of n Records that is not changed, iterator(p) yields
\* ceil(n / p) content pages, each of 1..p Records, then the one summary page
\* "Total: n contacts." and nothing more; the content pages concatenated are
\* the Records of the book, each once, in the book's order.
C4_PagesExhaustive ==
    LET n == Len(data)
        pages == CeilDiv(n, gen.page)
    IN  /\ Len(yielded) <= pages + 1
        /\ gen.done <=> Len(yielded) = pages + 1
        /\ \A k \in 1..Len(yielded) :
              IF k <= pages
              THEN /\ yielded[k].total = None
                   /\ Len(yielded[k].lines) \in 1..gen.page
              ELSE yielded[k] = SummaryPage(n)
        /\ gen.done => Lines(yielded, pages) = [i \in 1..n |-> Render(data[i])]

\* C4 witness: a traversal of three Records by pages of two has ended
C4_Witness ==
    /\ gen # None /\ gen.done /\ gen.page = 2
    /\ Len(data) = 3 /\ Len(yielded) = 3

----------------------------------------------------------------------------
(* AddressBook.iterator while the book is changed between two pages.       *)

LazyRecords == {Record(ContactName(i), None) : i \in 1..MaxLazyContacts}

InitLazy ==
    /\ data = <<>>
    /\ gen = None
    /\ yielded = <<>>
    /\ snap = <<>>
    /\ InitRest({"data", "gen", "yielded", "snap"})

\* gen_obj = book.iterator(page): a fresh traversal
LazyIterator ==
    \E page \in 1..MaxPage :
        /\ gen' = iterator(page)
        /\ yielded' = <<>>
        /\ snap' = data
        /\ UNCHANGED <<data, file, is_ended, raised, out, inp, rec>>

LazyAdd ==
    \E r \in LazyRecords :
        /\ ~HasKey(data, r.name)
        /\ data' = add_record(data, r)
        /\ UNCHANGED <<file, is_ended, raised, out, inp, rec, gen, yielded, snap>>

LazyRemove ==
    \E k \in Keys(data) :
        /\ data' = remove_record(data, k)
        /\ UNCHANGED <<file, is_ended, raised, out, inp, rec, gen, yielded, snap>>

NextLazy == LazyIterator \/ NextPage \/ LazyAdd \/ LazyRemove

SpecLazy == InitLazy /\ [][NextLazy]_vars

\* the pages of a book d by pages of p, computed at once
RECURSIVE SnapshotPages(_, _, _)
SnapshotPages(d, p, start) ==
    IF start >= Len(d) THEN <<SummaryPage(Len(d))>>
    ELSE <<ContentPage([i \in 1..(IF start + p <= Len(d) THEN p ELSE Len(d) - start)
                           |-> Render(d[start + i])])>>
         \o SnapshotPages(d, p, start + p)

\* C8: the pages of a traversal are those of the book as it was when
\* iterator() was called, whatever is added or removed between two pages.
C8_PagesOfSnapshot ==
    gen # None =>
        /\ Len(yielded) <= Len(SnapshotPages(snap, gen.page, 0))
        /\ yielded = SubSeq(SnapshotPages(snap, gen.page, 0), 1, Len(yielded))

\* C8 as amended: each page is computed from the book as it is when the page
\* is fetched: the k-th fetch finds the Records at positions (k-1)p+1..kp of
\* the book of that moment and yields them, or, finding none, yields the
\* summary with the count of that moment and ends the traversal.
C8_PagesOfLiveBook ==
    [][ Len(yielded') = Len(yielded) + 1 =>
            LET start == Len(yielded) * gen.page
                page == yielded'[Len(yielded')]
            IN  IF start >= Len(data)
                THEN page = SummaryPage(Len(data)) /\ gen'.done
                ELSE /\ page.total = None
                     /\ ~gen'.done
                     /\ Len(page.lines) =
                            (IF start + gen.page <= Len(data) THEN gen.page
                             ELSE Len(data) - start)
                     /\ \A i \in 1..Len(page.lines) :
                            page.lines[i] = Render(data[start + i]) ]_vars

\* C8 witness: the first of two Records was removed after the page that
\* shows it; the traversal ended without showing the second, which was in
\* the book all along
C8_Witness ==
    /\ gen # None /\ gen.done
    /\ Len(snap) = 2 /\ data = <<snap[2]>>
    /\ yielded = <<ContentPage(<<Render(snap[1])>>), SummaryPage(1)>>

----------------------------------------------------------------------------
(* Record.days_to_birthday as a function of the birthday and the moment.   *)

FirstYear == 2023

\* the current moments tried: every date of NumYears years, at 00:00:00,
\* 00:00:01, 12:00:00 and 23:59:59
Moments ==
    {[date |-> <<y, m, d>>, seconds |-> t] :
        y \in FirstYear..(FirstYear + NumYears - 1), m \in 1..12, d \in 1..31,
        t \in {0, 1, 43200, 86399}}

\* the birthdays tried
Birthdays ==
    {<<1990, 3, 1>>, <<1990, 3, 2>>, <<1990, 2, 28>>, <<1992, 2, 29>>,
     <<1985, 12, 31>>, <<2000, 1, 1>>}

InitBirthday ==
    /\ inp \in {t \in Moments : DateValid(t.date[1], t.date[2], t.date[3])}
    /\ \E b \in Birthdays : rec = [Record(Ann, None) EXCEPT !.birthday = b]
    /\ out = [kind |-> "pending", n |-> 0]
    /\ InitRest({"inp", "rec", "out"})

\* rec.days_to_birthday() at the moment inp
DaysToBirthday ==
    /\ out.kind = "pending"
    /\ out' = days_to_birthday(rec, inp)
    /\ UNCHANGED <<data, file, is_ended, raised, inp, rec, gen, yielded, snap>>

SpecBirthday == InitBirthday /\ [][DaysToBirthday]_vars

\* the first date after today that has the birthday's month and day
RECURSIVE NextOccurrence(_, _, _)
NextOccurrence(birthday, today, year) ==
    IF /\ DateValid(year, birthday[2], birthday[3])
       /\ ToOrdinal(<<year, birthday[2], birthday[3]>>) > ToOrdinal(today)
    THEN <<year, birthday[2], birthday[3]>>
    ELSE NextOccurrence(birthday, today, year + 1)

\* C5: the result depends on the current date alone: "today" when the
\* birthday's month and day are today's, otherwise the number of calendar
\* days from today's date to the next occurrence of that month and day.
C5_WholeDaysFromDate ==
    out.kind # "pending" =>
        IF rec.birthday[2] = inp.date[2] /\ rec.birthday[3] = inp.date[3]
        THEN out.kind = "today"
        ELSE /\ out.kind = "days"
             /\ out.n = ToOrdinal(NextOccurrence(rec.birthday, inp.date, inp.date[1]))
                            - ToOrdinal(inp.date)

----------------------------------------------------------------------------
(* AddressBook.search as a function of the book and the pattern.           *)

\* Anna with 1234567, Ann without a phone, Bob with 12399 and 12388
SearchRecords ==
    {[Record(<<"A", "n", "n", "a">>, <<"1", "2", "3", "4", "5", "6", "7">>) EXCEPT !.email = None],
     Record(Ann, None),
     add_phone(Record(Bob, <<"1", "2", "3", "9", "9">>), <<"1", "2", "3", "8", "8">>)}

\* the characters patterns are made of
PatternChars == {"a", "N", "b", ".", "(", "1", "2"}

RECURSIVE Patterns(_)
Patterns(n) ==
    IF n = 0 THEN {<<>>}
    ELSE Patterns(n - 1) \cup
         {Append(q, c) : q \in {x \in Patterns(n - 1) : Len(x) = n - 1}, c \in PatternChars}

RECURSIVE SearchBooks(_)
SearchBooks(n) ==
    IF n = 0 THEN {<<>>}
    ELSE SearchBooks(n - 1) \cup
         {Append(d, r) : d \in {b \in SearchBooks(n - 1) : Len(b) = n - 1}, r \in SearchRecords}

InitSearch ==
    /\ data \in {d \in SearchBooks(MaxSearchContacts) : DistinctNames(d)}
    /\ inp \in Patterns(MaxPattern) \ {<<>>}
    /\ out = [exc |-> "pending", found |-> <<>>]
    /\ InitRest({"data", "inp", "out"})

\* book.search(inp)
SearchCall ==
    /\ out.exc = "pending"
    /\ out' = search(data, inp)
    /\ UNCHANGED <<data, file, is_ended, raised, inp, rec, gen, yielded, snap>>

SpecSearch == InitSearch /\ [][SearchCall]_vars

\* whether string starts with prefix, letters compared without their case
StartsWith(string, prefix, ignorecase) ==
    /\ Len(prefix) <= Len(string)
    /\ \A i \in 1..Len(prefix) :
          IF ignorecase THEN LowerChar(prefix[i]) = LowerChar(string[i])
          ELSE prefix[i] = string[i]

\* the entries the claim expects, in the book's order
RECURSIVE ExpectedPhoneEntries(_, _)
ExpectedPhoneEntries(d, pattern) ==
    IF d = <<>> THEN <<>>
    ELSE [i \in 1..Cardinality({j \in 1..Len(Head(d).phones) :
                                   StartsWith(Head(d).phones[j], pattern, FALSE)})
             |-> Head(d)]
         \o ExpectedPhoneEntries(Tail(d), pattern)

ExpectedNameEntries(d, pattern) ==
    SelectSeq(d, LAMBDA r : StartsWith(r.name, pattern, TRUE))

\* C6: a pattern of digits finds one entry of a record per phone that starts
\* with it; any other pattern finds the records whose name starts with the
\* pattern, as a literal string compared without case; both in the book's
\* order.
C6_LiteralPrefixSearch ==
    out.exc # "pending" =>
        /\ out.exc = ""
        /\ out.found = IF IsNumeric(inp) THEN ExpectedPhoneEntries(data, inp)
                       ELSE ExpectedNameEntries(data, inp)

=============================================================================
